---- MODULE Spec2Model ----
(***************************************************************************)
(* Model of the Suikiii game server (src/server.js): one Node.js process   *)
(* that multiplexes the 60 Hz physics interval, the 30 Hz broadcast        *)
(* interval, the 100 ms combo interval, the game-over timeout and the      *)
(* socket.io handlers (connection, dropFruit, restart, disconnect).  Every *)
(* callback runs to completion, so every callback is one action.           *)
(*                                                                         *)
(* Units.  Lengths are in 1/1000 px, velocities in 1/100 px per step and   *)
(* times in ms, so that every quantity of the source is an integer.        *)
(* Time.  The code reads Date.now() only to subtract lastMergeTime from    *)
(* it, and a timeout only counts down, so the model keeps the two clocks   *)
(* themselves: sinceLastMerge (Date.now() - lastMergeTime) and, for every  *)
(* scheduled timeout, the delay that is left.  Advance lets TimeStep ms    *)
(* pass.                                                                   *)
(* The Matter.js solver is an external collaborator: Matter.Engine.update  *)
(* gives every body a new kinematic state chosen from PhysStates.          *)
(* Strings that the code joins and splits on '-' are modelled as the       *)
(* sequence of their '-'-separated tokens.                                 *)
(***************************************************************************)
EXTENDS Integers, Sequences, FiniteSets, TLC

\* ------------------------------------------------------------------ bounds
\* Spec, the whole server: sessions come and go around one game
MaxSessions == 2        \* socket ids are 1..MaxSessions
MaxPieces == 1          \* drops stop once this many pieces have been created
\* SpecMerge, one session playing: drops, merges, game over and restart
MaxMergePieces == 4     \* drops stop once this many pieces have been created
\* SpecLive, one session playing short games, the callbacks fairly scheduled
MaxLivePieces == 2      \* drops stop once this many pieces have been created
\* SpecCombo, one short game with the combo interval running
MaxComboPieces == 2     \* drops stop once this many pieces have been created
\* SpecHigh, play that starts from a board of pieces of the top ranks
MaxBoard == 2           \* pieces on the board at the start

TimeStep == 1000        \* ms that pass in one Advance
SocketIds == 1..MaxSessions
\* the session of SpecMerge and SpecHigh
Player == CHOOSE id \in SocketIds : \A other \in SocketIds : id <= other
RandVals == {10}        \* outcomes of Math.random(), in 1/100
DropXs == {0}           \* x of a dropFruit request
PlayerNames == {""}     \* playerName of a dropFruit request ("" is falsy)
\* SpecDrop, two sessions dropping pieces under several names
MaxDropPieces == 2      \* drops stop once this many pieces have been created
DropRands == {10, 50}   \* outcomes of Math.random(): a rank-1 and a rank-2 piece
DropNames == {"", "ann", "constructor"}
BoardLevels == {9, 10}  \* ranks of the pieces SpecHigh starts from
\* kinematic states Matter.Engine.update can leave a body in: at rest above
\* the danger line, moving above the danger line, at rest on the ground
PhysStates == { [x |-> 400000, y |-> 60000,  vx |-> 0, vy |-> 0],
                [x |-> 720000, y |-> 60000,  vx |-> 0, vy |-> 300],
                [x |-> 400000, y |-> 900000, vx |-> 0, vy |-> 0] }

\* ------------------------------------------------------------------ constants
BOARD_WIDTH == 800000
GAME_OVER_LINE == 100000
BORDER_WIDTH == 4000
MAX_LEVEL == 10
COMBO_WINDOW == 2000
GRACE_MS == 3000
\* Date.now() - 0, and every time since the last merge beyond the combo window
LongAgo == COMBO_WINDOW + TimeStep
DefaultName == "TiiiKiii"
NoClient == 0           \* firstClientId = null
NoTimer == -1           \* gameOverTimer = null
NoHash == <<>>          \* lastBroadcastState = null

\* FRUITS[level]: baseSize and sizeIncrement in 1/1000 px, collisionScale in 1/100
FRUITS == [l \in 1..MAX_LEVEL |->
            [level |-> l,
             baseSize |-> IF l = 4 THEN 23400 ELSE IF l = 8 THEN 33800 ELSE 26000,
             sizeIncrement |-> 14300,
             collisionScale |-> CASE l = 3 -> 95 [] l = 5 -> 85 [] l = 6 -> 80
                                  [] l = 8 -> 95 [] OTHER -> 100]]

getRadius(fruit) ==
    ((fruit.baseSize + fruit.level * fruit.sizeIncrement) * fruit.collisionScale) \div 100

\* rand is Math.random() in 1/100
getRandomBlock(rand) ==
    LET level == IF rand < 35 THEN 1
                 ELSE IF rand < 60 THEN 2
                 ELSE IF rand < 80 THEN 3
                 ELSE IF rand < 95 THEN 4 ELSE 5
    IN FRUITS[level]

\* a JS Map, and its set and delete
EmptyMap == [k \in {} |-> 0]
MapSet(m, k, v) == [x \in DOMAIN m \cup {k} |-> IF x = k THEN v ELSE m[x]]
\* Map.prototype.delete left out
MapDeleteNothing(m, k) == m
MapDelete(m, k) == [x \in DOMAIN m \ {k} |-> m[x]]
Range(f) == {f[x] : x \in DOMAIN f}
\* the keys of gameState.contributors; the object is a total function, where
\* 0 stands for a key that is not an own property of the object
Names == (DropNames \ {""}) \cup {DefaultName}
\* gameState.contributors is an object literal: a key that is not its own is
\* looked up on Object.prototype, where these names (among others) are found
ObjectPrototypeKeys == {"constructor", "toString"}
NaN == -1               \* the count NaN
\* lines 504-507: if (!contributors[name]) contributors[name] = 0;
\* contributors[name]++.  An undefined, 0 or NaN count is falsy and restarts
\* from 0; a function inherited from Object.prototype is truthy, and ++
\* turns it into NaN.
CountAfter(name, old) ==
    IF old = NaN THEN 1
    ELSE IF old = 0 THEN (IF name \in ObjectPrototypeKeys THEN NaN ELSE 1)
    ELSE old + 1

Max(a, b) == IF a > b THEN a ELSE b
Min(a, b) == IF a < b THEN a ELSE b
Abs(a) == IF a < 0 THEN -a ELSE a

VARIABLES
    blocks, score, highScore, gameOver, totalBlocks, maxCombo, combo,
    contributors,          \* the fields of gameState
    bodiesMap,             \* uid -> body
    processedMerges,
    gameOverTimer,         \* null, or the handle of a timeout: the delay left
    sinceLastMerge,        \* Date.now() - lastMergeTime, up to LongAgo
    comboCount, firstClientId,
    lastBroadcastState, playerQueues,
    sockets,               \* io.sockets.sockets, in insertion order
    timeouts,              \* handles of the setTimeout calls still scheduled
    uidSeq,                \* pieces created so far; makes Math.random() fresh
    lastOp,                \* the callback that ran last
    emitted,               \* the messages it sent
    lastMerges,            \* the merges it resolved
    armedFor, armedClean,  \* history of the pending game-over timer
    mergedPairs            \* history: the uid pairs resolved as merges so far

gameStateVars == <<blocks, score, highScore, gameOver, totalBlocks, maxCombo,
                   combo, contributors>>
vars == <<blocks, score, highScore, gameOver, totalBlocks, maxCombo, combo,
          contributors, bodiesMap, processedMerges, gameOverTimer,
          sinceLastMerge, comboCount, firstClientId, lastBroadcastState,
          playerQueues, sockets, timeouts, uidSeq, lastOp, emitted,
          lastMerges, armedFor, armedClean, mergedPairs>>

Init ==
    /\ blocks = <<>> /\ score = 0 /\ highScore = 0 /\ gameOver = FALSE
    /\ totalBlocks = 0 /\ maxCombo = 0 /\ combo = 0
    /\ contributors = [n \in Names |-> 0]
    /\ bodiesMap = EmptyMap
    /\ processedMerges = {}
    /\ gameOverTimer = NoTimer
    /\ sinceLastMerge = LongAgo
    /\ comboCount = 0
    /\ firstClientId = NoClient
    /\ lastBroadcastState = NoHash
    /\ playerQueues = EmptyMap
    /\ sockets = <<>>
    /\ timeouts = {}
    /\ uidSeq = 0
    /\ lastOp = [op |-> "listen", id |-> 0]
    /\ emitted = {}
    /\ lastMerges = <<>>
    /\ armedFor = 0 /\ armedClean = FALSE
    /\ mergedPairs = {}

\* ------------------------------------------------------------------ messages
Msg(to, ev, arg) == [to |-> to, ev |-> ev, arg |-> arg]
\* io.emit(ev): one copy to every connected socket
IoEmit(socks, ev, arg) == {Msg(s, ev, arg) : s \in Range(socks)}
\* socket.emit(ev) taken for io.emit(ev)
SocketEmitToAll(id, ev, arg) == IoEmit(sockets, ev, arg)
\* socket.emit(ev): one copy to the socket of the handler
SocketEmit(id, ev, arg) == {Msg(id, ev, arg)}
\* io.to(room).emit(ev) taken for io.emit(ev)
IoToEveryone(socks, room, ev, arg) == IoEmit(socks, ev, arg)
\* io.to(room).emit(ev): every connected socket in the room named by a socket id
IoTo(socks, room, ev, arg) == {Msg(s, ev, arg) : s \in {t \in Range(socks) : t = room}}

\* ------------------------------------------------------------------ io.on('connection')
\* lines 483-490 without the test of gameState.gameOver
GameOverReplayAlways(id, over) == SocketEmit(id, "gameOver", 0)

\* lines 483-490: a session that joins a game that is over is told so
GameOverReplay(id, over) == IF over THEN SocketEmit(id, "gameOver", 0) ELSE {}

Connect(id, rand) ==
    /\ id \notin Range(sockets)
    /\ sockets' = Append(sockets, id)
    /\ firstClientId' = IF firstClientId = NoClient THEN id ELSE firstClientId
    /\ playerQueues' = MapSet(playerQueues, id, getRandomBlock(rand))
    /\ emitted' = SocketEmit(id, "gameState", playerQueues'[id].level)
                  \cup GameOverReplay(id, gameOver)
    /\ lastOp' = [op |-> "connection", id |-> id]
    /\ lastMerges' = <<>>
    /\ UNCHANGED <<gameStateVars, bodiesMap, processedMerges, gameOverTimer,
                   sinceLastMerge, comboCount, lastBroadcastState, timeouts,
                   uidSeq, armedFor, armedClean, mergedPairs>>

\* ------------------------------------------------------------------ socket.on('disconnect')
\* the reassignment in the disconnect handler, with the designation kept
RecorderKept(connectedSockets) == firstClientId

\* the disconnect handler's choice of the recorder among the other sockets
RecorderAmong(connectedSockets) ==
    IF Len(connectedSockets) > 0 THEN connectedSockets[1] ELSE NoClient

Disconnect(id) ==
    /\ id \in Range(sockets)
    /\ sockets' = SelectSeq(sockets, LAMBDA s : s # id)
    /\ playerQueues' = MapDelete(playerQueues, id)
    /\ firstClientId' =
         IF id = firstClientId
         THEN RecorderAmong(SelectSeq(sockets', LAMBDA s : s # id))
         ELSE firstClientId
    /\ emitted' = {}
    /\ lastOp' = [op |-> "disconnect", id |-> id]
    /\ lastMerges' = <<>>
    /\ UNCHANGED <<gameStateVars, bodiesMap, processedMerges, gameOverTimer,
                   sinceLastMerge, comboCount, lastBroadcastState, timeouts,
                   uidSeq, armedFor, armedClean, mergedPairs>>

\* ------------------------------------------------------------------ dropFruit
\* `${Date.now()}-${Math.random()}`: two tokens; the n-th piece created gets
\* the n-th random number, and the time token, which identifies nothing, is 0
NewUid(n) == <<0, n>>

\* function dropFruit(x, playerId, fruitToDrop): the new block
NewBlock(x, playerId, nextBlock, n) ==
    LET radius == getRadius(nextBlock)
    IN [uid |-> NewUid(n),
        x |-> Max(radius + BORDER_WIDTH, Min(BOARD_WIDTH - radius - BORDER_WIDTH, x)),
        y |-> radius + BORDER_WIDTH + 20000,
        vx |-> 0, vy |-> 0,
        radius |-> radius,
        level |-> nextBlock.level,
        droppedBy |-> playerId]

\* Matter.Bodies.circle(x, y, r) followed by Matter.Body.setVelocity
NewBody(b) == [x |-> b.x, y |-> b.y, vx |-> b.vx, vy |-> b.vy, isSleeping |-> FALSE]

\* socket.on('dropFruit') while gameState.gameOver
DropRejected(id) ==
    /\ id \in Range(sockets)
    /\ gameOver
    /\ emitted' = SocketEmit(id, "error", 0)
    /\ lastOp' = [op |-> "dropFruit", id |-> id]
    /\ lastMerges' = <<>>
    /\ UNCHANGED <<gameStateVars, bodiesMap, processedMerges, gameOverTimer,
                   sinceLastMerge, comboCount, firstClientId, lastBroadcastState,
                   playerQueues, sockets, timeouts, uidSeq, armedFor,
                   armedClean, mergedPairs>>

\* socket.on('dropFruit') otherwise
DropAccepted(id, x, playerName, rand) ==
    /\ id \in Range(sockets)
    /\ ~gameOver
    /\ \E playerFruit \in (IF id \in DOMAIN playerQueues THEN {playerQueues[id]}
                          ELSE {getRandomBlock(r) : r \in RandVals}) :
       LET name == IF playerName # "" THEN playerName ELSE DefaultName
           newBlock == NewBlock(x, id, playerFruit, uidSeq + 1)
       IN /\ contributors' = [contributors EXCEPT ![name] = CountAfter(name, @)]
          /\ bodiesMap' = MapSet(bodiesMap, newBlock.uid, NewBody(newBlock))
          /\ blocks' = Append(blocks, newBlock)
          /\ totalBlocks' = totalBlocks + 1
          /\ uidSeq' = uidSeq + 1
          /\ playerQueues' = MapSet(playerQueues, id, getRandomBlock(rand))
          /\ emitted' = IoEmit(sockets, "gameState", 0)
                        \cup SocketEmit(id, "personalNextFruit", playerQueues'[id].level)
    /\ lastOp' = [op |-> "dropFruit", id |-> id, playerName |-> playerName]
    /\ lastMerges' = <<>>
    /\ UNCHANGED <<score, highScore, gameOver, maxCombo, combo, processedMerges,
                   gameOverTimer, sinceLastMerge, comboCount, firstClientId,
                   lastBroadcastState, sockets, timeouts, armedFor, armedClean, mergedPairs>>

\* if (gameOverTimer) clearTimeout(gameOverTimer), with the cancellation left out
ClearTimeoutForgotten(pending, timer) == pending

\* if (gameOverTimer) clearTimeout(gameOverTimer): the timeouts still scheduled
ClearTimeout(pending, timer) ==
    IF timer # NoTimer THEN pending \ {timer} ELSE pending

\* ------------------------------------------------------------------ socket.on('restart')
\* contributors: {} taken for contributors: gameState.contributors
KeptContributors(old) == old

\* contributors: {} in the rebuilt gameState: no name has a count
FreshContributors(old) == [n \in DOMAIN old |-> 0]

Restart(id, draw) ==
    /\ id \in Range(sockets)
    /\ draw \in [Range(sockets) -> RandVals]
    /\ bodiesMap' = EmptyMap
    /\ blocks' = <<>> /\ score' = 0 /\ highScore' = highScore
    /\ gameOver' = FALSE /\ totalBlocks' = 0 /\ maxCombo' = 0 /\ combo' = 0
    /\ contributors' = FreshContributors(contributors)
    /\ processedMerges' = {}
    /\ comboCount' = 0
    /\ sinceLastMerge' = LongAgo
    /\ timeouts' = ClearTimeout(timeouts, gameOverTimer)
    /\ gameOverTimer' = NoTimer
    /\ playerQueues' = [s \in DOMAIN playerQueues \cup Range(sockets) |->
                          IF s \in Range(sockets) THEN getRandomBlock(draw[s])
                          ELSE playerQueues[s]]
    /\ emitted' = {Msg(s, "personalNextFruit", playerQueues'[s].level) : s \in Range(sockets)}
                  \cup IoEmit(sockets, "gameState", 0)
    /\ lastOp' = [op |-> "restart", id |-> id]
    /\ lastMerges' = <<>>
    /\ UNCHANGED <<firstClientId, lastBroadcastState, sockets, uidSeq,
                   armedFor, armedClean, mergedPairs>>

\* ------------------------------------------------------------------ checkForMerges
\* Exact comparison of squares that do not fit a machine integer: a number is
\* kept as <<high, mid, low>> in base K.
K == 1000
Norm3(h, m, l) == LET m2 == m + (l \div K) IN <<h + (m2 \div K), m2 % K, l % K>>
Sq3(n) == LET h == n \div K
              l == n % K
          IN Norm3(h * h, 2 * h * l, l * l)
Add3(p, q) == Norm3(p[1] + q[1], p[2] + q[2], p[3] + q[3])
Lt3(p, q) == \/ p[1] < q[1]
             \/ p[1] = q[1] /\ p[2] < q[2]
             \/ p[1] = q[1] /\ p[2] = q[2] /\ p[3] < q[3]

\* dist < touchDist * 1.05, as (20*dist)^2 < (21*touchDist)^2
Touching(b1, b2) ==
    LET dx == b1.x - b2.x
        dy == b1.y - b2.y
        touchDist == b1.radius + b2.radius
    IN Lt3(Add3(Sq3(20 * Abs(dx)), Sq3(20 * Abs(dy))), Sq3(21 * touchDist))

\* `${b1.uid}-${b2.uid}`
MergeKey(b1, b2) == b1.uid \o b2.uid

\* lines 254-255 with toRemove.add(j) left out
MarkFirstRemoved(toRemove, i, j) == toRemove \cup {i}

\* lines 254-255: toRemove.add(i); toRemove.add(j)
MarkRemoved(toRemove, i, j) == toRemove \cup {i, j}

\* line 217 without the comparison with COMBO_WINDOW
InComboWhateverTheTime(timeSinceLastMerge, count) == count > 0

\* line 217: timeSinceLastMerge < COMBO_WINDOW && comboCount > 0
InCombo(timeSinceLastMerge, count) ==
    timeSinceLastMerge < COMBO_WINDOW /\ count > 0

\* lines 227-229 with the comparison left out
HighScoreOverwritten(high, newScore) == newScore

\* lines 227-229: if (gameState.score > gameState.highScore) ...
HighScoreAfter(high, newScore) == IF newScore > high THEN newScore ELSE high

\* lines 203-255: the pair (i, j) of bl is resolved
ResolveMerge(st, bl, i, j) ==
    LET b1 == bl[i]
        b2 == bl[j]
        newLevel == b1.level + 1
        newFruit == FRUITS[newLevel]
        basePoints == (2 ^ newLevel) * 10
        timeSinceLastMerge == st.sinceLastMerge
        inCombo == InCombo(timeSinceLastMerge, st.comboCount)
        cc == IF inCombo THEN st.comboCount + 1 ELSE 1
        points == IF inCombo THEN (basePoints * (10 + cc)) \div 10 ELSE basePoints
        newScore == st.score + points
        mergedBlock == [uid |-> NewUid(st.uidSeq + 1),
                        x |-> (b1.x + b2.x) \div 2,
                        y |-> (b1.y + b2.y) \div 2,
                        vx |-> (b1.vx + b2.vx) \div 2,
                        vy |-> -300,
                        radius |-> getRadius(newFruit),
                        level |-> newLevel,
                        droppedBy |-> NoClient]
    IN [st EXCEPT !.processedMerges = @ \cup {MergeKey(b1, b2)},
                  !.sinceLastMerge = 0,
                  !.comboCount = cc,
                  !.combo = cc,
                  !.score = newScore,
                  !.highScore = HighScoreAfter(@, newScore),
                  !.maxCombo = IF cc > @ THEN cc ELSE @,
                  !.toAdd = Append(@, mergedBlock),
                  !.toRemove = MarkRemoved(@, i, j),
                  !.uidSeq = @ + 1,
                  !.merges = Append(@, [a |-> b1, b |-> b2, new |-> mergedBlock,
                                        points |-> points, combo |-> cc])]

\* lines 193-199 without the comparison of the two levels
MergeableAcrossLevels(b1, b2) ==
    /\ b1.level < MAX_LEVEL
    /\ Touching(b1, b2)

\* whether the scan of lines 193-199 takes the pair as a merge candidate
Mergeable(b1, b2) ==
    /\ b1.level = b2.level
    /\ b1.level < MAX_LEVEL
    /\ Touching(b1, b2)

RECURSIVE ScanJ(_, _, _, _)
\* line 268 left out: after a merge the inner loop goes on with block i
ScanOnAfterMerge(st, bl, i, j) == ScanJ(st, bl, i, j + 1)

\* line 268, break: a merge ends the inner loop of block i
BreakAfterMerge(st, bl, i, j) == st

\* the inner loop, from j on
ScanJ(st, bl, i, j) ==
    IF j > Len(bl) THEN st
    ELSE IF j \in st.toRemove THEN ScanJ(st, bl, i, j + 1)
    ELSE IF Mergeable(bl[i], bl[j])
         THEN IF MergeKey(bl[i], bl[j]) \in st.processedMerges
              THEN ScanJ(st, bl, i, j + 1)
              ELSE BreakAfterMerge(ResolveMerge(st, bl, i, j), bl, i, j)
         ELSE ScanJ(st, bl, i, j + 1)

RECURSIVE ScanI(_, _, _)
\* the outer loop, from i on
ScanI(st, bl, i) ==
    IF i > Len(bl) THEN st
    ELSE IF i \in st.toRemove THEN ScanI(st, bl, i + 1)
    ELSE ScanI(ScanJ(st, bl, i, i + 1), bl, i + 1)

\* key.split('-')[n] as a string
KeyPart(key, n) == <<key[n]>>

\* lines 283-291: the keys that survive the purge
PurgedMerges(pm, removedUids) ==
    {key \in pm : KeyPart(key, 1) \notin removedUids /\ KeyPart(key, 2) \notin removedUids}

\* the indices of a list of n blocks that are not in the set, in order
IndicesOutside(n, set) ==
    SelectSeq([k \in 1..n |-> k], LAMBDA k : k \notin set)

\* lines 275-281 left out: no body leaves the map
BodiesKept(bodies, removedUids) == bodies

\* lines 275-281: bodiesMap.delete(block.uid) for every block to remove
BodiesWithout(bodies, removedUids) ==
    [u \in DOMAIN bodies \ removedUids |-> bodies[u]]

\* checkForMerges() on the state st0 (the fields it reads and writes)
checkForMerges(st0) ==
    LET bl == st0.blocks
        st == ScanI(st0, bl, 1)
    IN IF st.toRemove = {} THEN st
       ELSE LET removedUids == {bl[k].uid : k \in st.toRemove}
                keptIdx == IndicesOutside(Len(bl), st.toRemove)
                remaining == [k \in 1..Len(keptIdx) |-> bl[keptIdx[k]]]
                bodiesLeft == BodiesWithout(st.bodiesMap, removedUids)
            IN [st EXCEPT
                  !.bodiesMap = [u \in DOMAIN bodiesLeft \cup {st.toAdd[k].uid : k \in 1..Len(st.toAdd)} |->
                                   IF u \in DOMAIN bodiesLeft THEN bodiesLeft[u]
                                   ELSE NewBody(CHOOSE b \in Range(st.toAdd) : b.uid = u)],
                  !.processedMerges = PurgedMerges(@, removedUids),
                  !.blocks = remaining \o st.toAdd]

\* ------------------------------------------------------------------ checkGameOver
\* lines 316-326 without the isSettled test: any block above the line counts
dangerBlocksAtAnySpeed(bl, bodies) ==
    SelectSeq(bl, LAMBDA b :
        /\ b.uid \in DOMAIN bodies
        /\ b.y - b.radius < GAME_OVER_LINE)

\* lines 316-326
settledDangerBlocks(bl, bodies) ==
    SelectSeq(bl, LAMBDA b :
        /\ b.uid \in DOMAIN bodies
        /\ b.y - b.radius < GAME_OVER_LINE
        /\ (b.vx * b.vx + b.vy * b.vy < 30 * 30 \/ bodies[b.uid].isSleeping))

\* lines 328-367 without the test of line 329, if (!gameOverTimer): every
\* tick that sees a settled piece above the line sets a new timer
GameOverTimerRearmed(bl, bodies, over, timer) ==
    IF Len(settledDangerBlocks(bl, bodies)) > 0 /\ ~over
    THEN GRACE_MS
    ELSE NoTimer

\* lines 328-367, on the list and bodies left by the merge pass
\* gameOverTimer after checkGameOver: setTimeout(..., 3000) returns a handle
GameOverTimerAfter(bl, bodies, over, timer) ==
    IF Len(settledDangerBlocks(bl, bodies)) > 0 /\ ~over
    THEN IF timer = NoTimer THEN GRACE_MS ELSE timer
    ELSE NoTimer

\* the scheduled timeouts after checkGameOver: setTimeout and clearTimeout
TimeoutsAfter(bl, bodies, over, timer, pending) ==
    IF Len(settledDangerBlocks(bl, bodies)) > 0 /\ ~over
    THEN IF timer = NoTimer THEN pending \cup {GRACE_MS} ELSE pending
    ELSE ClearTimeout(pending, timer)

\* ------------------------------------------------------------------ startPhysicsLoop
\* lines 377-391: every block takes the kinematics of its body
SyncFromPhysics(bl, bodies) ==
    [k \in 1..Len(bl) |->
        IF bl[k].uid \in DOMAIN bodies
        THEN [bl[k] EXCEPT !.x = bodies[bl[k].uid].x, !.y = bodies[bl[k].uid].y,
                           !.vx = bodies[bl[k].uid].vx, !.vy = bodies[bl[k].uid].vy]
        ELSE bl[k]]

\* lines 393-394 in the other order: checkGameOver() sees what the merge pass
\* was given
StateBeforeMerges(synced, merged) == synced

\* lines 393-394: checkGameOver() runs after checkForMerges(), on what it left
MonitoredState(synced, merged) == merged

\* lines 374-395, past the gameOver test: Matter.Engine.update (phys is what
\* it does to each body), the copy into the blocks, checkForMerges and
\* checkGameOver
PhysicsStep(phys) ==
    /\ phys \in [DOMAIN bodiesMap -> PhysStates]
    /\ \E stepped \in {[u \in DOMAIN bodiesMap |->
                         [x |-> phys[u].x, y |-> phys[u].y, vx |-> phys[u].vx,
                          vy |-> phys[u].vy, isSleeping |-> bodiesMap[u].isSleeping]]} :
       \E st0 \in {[blocks |-> SyncFromPhysics(blocks, stepped),
                   bodiesMap |-> stepped,
                   processedMerges |-> processedMerges,
                   sinceLastMerge |-> sinceLastMerge,
                   comboCount |-> comboCount,
                   combo |-> combo,
                   score |-> score,
                   highScore |-> highScore,
                   maxCombo |-> maxCombo,
                   uidSeq |-> uidSeq,
                   toRemove |-> {},
                   toAdd |-> <<>>,
                   merges |-> <<>>]} :
          \E st \in {checkForMerges(st0)} :
          \E seen \in {MonitoredState(st0, st)} :
          \E pending \in {Len(settledDangerBlocks(seen.blocks, seen.bodiesMap)) > 0} :
          /\ blocks' = st.blocks
          /\ bodiesMap' = st.bodiesMap
          /\ processedMerges' = st.processedMerges
          /\ sinceLastMerge' = st.sinceLastMerge
          /\ comboCount' = st.comboCount
          /\ combo' = st.combo
          /\ score' = st.score
          /\ highScore' = st.highScore
          /\ maxCombo' = st.maxCombo
          /\ uidSeq' = st.uidSeq
          /\ lastMerges' = st.merges
          /\ mergedPairs' = mergedPairs \cup {{st.merges[k].a.uid, st.merges[k].b.uid} : k \in 1..Len(st.merges)}
          /\ emitted' = UNION {IoEmit(sockets, "merge", k) : k \in 1..Len(st.merges)}
          /\ gameOverTimer' = GameOverTimerAfter(seen.blocks, seen.bodiesMap, gameOver,
                                                 gameOverTimer)
          /\ timeouts' = TimeoutsAfter(seen.blocks, seen.bodiesMap, gameOver,
                                       gameOverTimer, timeouts)
          /\ armedFor' = IF timeouts = {} THEN 0 ELSE armedFor
          /\ armedClean' = IF timeouts = {} THEN pending ELSE armedClean /\ pending
    /\ lastOp' = [op |-> "physics", id |-> 0]
    /\ UNCHANGED <<gameOver, totalBlocks, contributors, firstClientId,
                   lastBroadcastState, playerQueues, sockets>>

\* the interval callback without line 373, if (gameState.gameOver) return
PhysicsTickOverRunning ==
    \E phys \in [DOMAIN bodiesMap -> PhysStates] : PhysicsStep(phys)

\* the interval callback while gameState.gameOver
PhysicsTickOver ==
    /\ gameOver
    /\ lastOp' = [op |-> "physics", id |-> 0]
    /\ emitted' = {}
    /\ lastMerges' = <<>>
    /\ UNCHANGED <<gameStateVars, bodiesMap, processedMerges, gameOverTimer,
                   sinceLastMerge, comboCount, firstClientId, lastBroadcastState,
                   playerQueues, sockets, timeouts, uidSeq, armedFor,
                   armedClean, mergedPairs>>

\* the interval callback otherwise
PhysicsTick(phys) ==
    /\ ~gameOver
    /\ PhysicsStep(phys)

\* ------------------------------------------------------------------ the game-over timeout
TimerFire(h) ==
    /\ h \in timeouts
    /\ h = 0
    /\ timeouts' = timeouts \ {h}
    /\ gameOver' = TRUE
    /\ LET connectedSockets == sockets
       IN IF Len(connectedSockets) > 0
          THEN /\ firstClientId' =
                    IF firstClientId = NoClient \/ firstClientId \notin Range(connectedSockets)
                    THEN connectedSockets[1] ELSE firstClientId
               /\ emitted' = IoEmit(sockets, "gameOver", 0)
                             \cup IoTo(sockets, firstClientId', "saveHistory", 0)
          ELSE /\ firstClientId' = firstClientId
               /\ emitted' = {}
    /\ lastOp' = [op |-> "timeout", id |-> 0]
    /\ lastMerges' = <<>>
    /\ UNCHANGED <<blocks, score, highScore, totalBlocks, maxCombo, combo,
                   contributors, bodiesMap, processedMerges, gameOverTimer,
                   sinceLastMerge, comboCount, lastBroadcastState, playerQueues,
                   sockets, uidSeq, armedFor, armedClean, mergedPairs>>

\* ------------------------------------------------------------------ startBroadcastLoop
currentStateHash == <<Len(blocks), score, gameOver>>

blocksMoving ==
    \E k \in 1..Len(blocks) :
        /\ blocks[k].uid \in DOMAIN bodiesMap
        /\ LET body == bodiesMap[blocks[k].uid]
           IN body.vx * body.vx + body.vy * body.vy > 5 * 5

\* line 410 without gameState.blocks.length > 0
BroadcastSkippedAlsoWhenEmpty ==
    ~blocksMoving /\ lastBroadcastState = currentStateHash

BroadcastSkipped ==
    ~blocksMoving /\ lastBroadcastState = currentStateHash /\ Len(blocks) > 0

BroadcastTick ==
    /\ IF BroadcastSkipped
       THEN /\ emitted' = {}
            /\ UNCHANGED lastBroadcastState
       ELSE /\ lastBroadcastState' = currentStateHash
            /\ emitted' = IoEmit(sockets, "gameState", 0)
    /\ lastOp' = [op |-> "broadcast", id |-> 0]
    /\ lastMerges' = <<>>
    /\ UNCHANGED <<gameStateVars, bodiesMap, processedMerges, gameOverTimer,
                   sinceLastMerge, comboCount, firstClientId, playerQueues,
                   sockets, timeouts, uidSeq, armedFor, armedClean, mergedPairs>>

\* ------------------------------------------------------------------ the combo interval
\* line 451 without the comparison with COMBO_WINDOW
ComboExpiredAtOnce(since, count) == count > 0

\* line 451: now - lastMergeTime > COMBO_WINDOW && comboCount > 0
ComboExpired(since, count) == since > COMBO_WINDOW /\ count > 0

ComboTick ==
    /\ IF ComboExpired(sinceLastMerge, comboCount)
       THEN comboCount' = 0 /\ combo' = 0
       ELSE UNCHANGED <<comboCount, combo>>
    /\ lastOp' = [op |-> "combo", id |-> 0]
    /\ emitted' = {}
    /\ lastMerges' = <<>>
    /\ UNCHANGED <<blocks, score, highScore, gameOver, totalBlocks, maxCombo,
                   contributors, bodiesMap, processedMerges, gameOverTimer,
                   sinceLastMerge, firstClientId, lastBroadcastState,
                   playerQueues, sockets, timeouts, uidSeq, armedFor,
                   armedClean, mergedPairs>>

\* ------------------------------------------------------------------ the clock
\* TimeStep ms pass between two callbacks
Advance ==
    /\ sinceLastMerge' = Min(sinceLastMerge + TimeStep, LongAgo)
    /\ timeouts' = {Max(h - TimeStep, 0) : h \in timeouts}
    /\ gameOverTimer' = IF gameOverTimer \in timeouts
                        THEN Max(gameOverTimer - TimeStep, 0) ELSE gameOverTimer
    /\ armedFor' = IF timeouts # {} THEN Min(armedFor + TimeStep, GRACE_MS) ELSE armedFor
    /\ UNCHANGED <<gameStateVars, bodiesMap, processedMerges,
                   comboCount, firstClientId, lastBroadcastState,
                   playerQueues, sockets, uidSeq, lastOp, emitted,
                   lastMerges, armedClean, mergedPairs>>

\* ------------------------------------------------------------------ the whole server
Next ==
    \/ \E id \in SocketIds, rand \in RandVals : Connect(id, rand)
    \/ \E id \in SocketIds : Disconnect(id)
    \/ \E id \in SocketIds : DropRejected(id)
    \/ \E id \in SocketIds, x \in DropXs, playerName \in PlayerNames, rand \in RandVals :
          uidSeq < MaxPieces /\ DropAccepted(id, x, playerName, rand)
    \/ \E id \in SocketIds : \E draw \in [Range(sockets) -> RandVals] : Restart(id, draw)
    \/ PhysicsTickOver
    \/ \E phys \in [DOMAIN bodiesMap -> PhysStates] : PhysicsTick(phys)
    \/ \E h \in timeouts : TimerFire(h)
    \/ BroadcastTick
    \/ ComboTick
    \/ Advance

Spec == Init /\ [][Next]_vars

\* ------------------------------------------------------------------ one session playing
\* The callbacks that write the piece list, the dedup set and the game-over
\* timer, with one session connected.  Left out: the broadcast interval
\* (writes only lastBroadcastState), the combo interval (writes only
\* comboCount and combo) and the rejected drop (writes nothing).
NextMerge ==
    \/ \E rand \in RandVals : Connect(Player, rand)
    \/ \E x \in DropXs, playerName \in PlayerNames, rand \in RandVals :
          uidSeq < MaxMergePieces /\ DropAccepted(Player, x, playerName, rand)
    \/ \E draw \in [Range(sockets) -> RandVals] : Restart(Player, draw)
    \/ PhysicsTickOver
    \/ \E phys \in [DOMAIN bodiesMap -> PhysStates] : PhysicsTick(phys)
    \/ \E h \in timeouts : TimerFire(h)
    \/ Advance

SpecMerge == Init /\ [][NextMerge]_vars

\* ------------------------------------------------------------------ short games, fairly scheduled
\* One session plays short games.  The physics interval keeps firing, the
\* clock keeps running and a timeout that is due and not cleared is run.
NextLive ==
    \/ \E rand \in RandVals : Connect(Player, rand)
    \/ \E x \in DropXs, playerName \in PlayerNames, rand \in RandVals :
          uidSeq < MaxLivePieces /\ DropAccepted(Player, x, playerName, rand)
    \/ \E draw \in [Range(sockets) -> RandVals] : Restart(Player, draw)
    \/ PhysicsTickOver
    \/ \E phys \in [DOMAIN bodiesMap -> PhysStates] : PhysicsTick(phys)
    \/ \E h \in timeouts : TimerFire(h)
    \/ Advance

SpecLive ==
    /\ Init /\ [][NextLive]_vars
    /\ WF_vars(\E phys \in [DOMAIN bodiesMap -> PhysStates] : PhysicsTick(phys))
    /\ WF_vars(\E h \in timeouts : TimerFire(h))
    /\ WF_vars(Advance)

\* ------------------------------------------------------------------ drops of two sessions
\* Two sessions come and go, drop pieces under the names of DropNames and
\* restart the game; nothing else runs.
NextDrop ==
    \/ \E id \in SocketIds, rand \in DropRands : Connect(id, rand)
    \/ \E id \in SocketIds : Disconnect(id)
    \/ \E id \in SocketIds, x \in DropXs, playerName \in DropNames, rand \in DropRands :
          uidSeq < MaxDropPieces /\ DropAccepted(id, x, playerName, rand)
    \/ \E id \in SocketIds, draw \in [Range(sockets) -> RandVals] : Restart(id, draw)

SpecDrop == Init /\ [][NextDrop]_vars

\* ------------------------------------------------------------------ one short game
\* One session, coming and going, plays one game while the combo interval
\* runs.  The intervals and the clock never stop: setInterval fires the combo
\* callback every 100 ms for as long as the process lives.
NextCombo ==
    \/ \E rand \in RandVals : Connect(Player, rand)
    \/ Disconnect(Player)
    \/ DropRejected(Player)
    \/ \E x \in DropXs, playerName \in PlayerNames, rand \in RandVals :
          uidSeq < MaxComboPieces /\ DropAccepted(Player, x, playerName, rand)
    \/ PhysicsTickOver
    \/ \E phys \in [DOMAIN bodiesMap -> PhysStates] : PhysicsTick(phys)
    \/ \E h \in timeouts : TimerFire(h)
    \/ ComboTick
    \/ Advance

SpecCombo ==
    Init /\ [][NextCombo]_vars /\ WF_vars(ComboTick) /\ WF_vars(Advance)

\* ------------------------------------------------------------------ play from a high board
\* Pieces of rank 9 and 10 take hundreds of drops to make.  SpecHigh starts
\* from a board the server reaches that way: every piece was merged up
\* from rank-5 drops, more than a combo window apart, one piece after the
\* other, and is now falling, clear of the others.  A piece of a level above
\* 5 is the merge of two pieces of the level below, the second built after
\* the first; the keys of all those merges are still in processedMerges.
\* The game may be the first since the server started, or follow a restart
\* of a game that ended with a board of PriorGames: then highScore is the
\* score of that game if it was higher, and the uids go on from its uids.
DropsFor(level) == 2 ^ (level - 5)
PiecesFor(level) == 2 * DropsFor(level) - 1
ScoreFor(level) == (level - 5) * (2 ^ level) * 10

RECURSIVE SumSeq(_)
SumSeq(ns) == IF ns = <<>> THEN 0 ELSE ns[1] + SumSeq(Tail(ns))
\* what the pieces of the levels add up to
DropsOf(levels) == SumSeq([k \in 1..Len(levels) |-> DropsFor(levels[k])])
PiecesOf(levels) == SumSeq([k \in 1..Len(levels) |-> PiecesFor(levels[k])])
ScoreOf(levels) == SumSeq([k \in 1..Len(levels) |-> ScoreFor(levels[k])])

RECURSIVE MergesFor(_, _)
\* the pairs of uid numbers merged on the way to a piece of the level, built
\* from the uids after base
MergesFor(level, base) ==
    IF level <= 5 THEN {}
    ELSE LET p == PiecesFor(level - 1)
         IN MergesFor(level - 1, base) \cup MergesFor(level - 1, base + p)
               \cup {<<base + p, base + 2 * p>>}

\* the merges of a game that built the levels with the uids after base
HighMergesFrom(levels, base) ==
    UNION {MergesFor(levels[k], base + PiecesOf(SubSeq(levels, 1, k - 1))) :
              k \in 1..Len(levels)}

HighMerges(levels) == HighMergesFrom(levels, 0)

\* the boards an earlier game of the run ended with: none (no earlier game),
\* or three pieces of the top level
PriorGames == {<<>>, <<MAX_LEVEL, MAX_LEVEL, MAX_LEVEL>>}

\* the board of the levels, built with the uids after base
HighBoardFrom(levels, base) ==
    [k \in 1..Len(levels) |->
        [uid |-> NewUid(base + PiecesOf(SubSeq(levels, 1, k))),
         x |-> 400000,
         y |-> 840000 - (k - 1) * 340000,
         vx |-> 0, vy |-> 300,
         radius |-> getRadius(FRUITS[levels[k]]),
         level |-> levels[k],
         droppedBy |-> NoClient]]

HighBoard(levels) == HighBoardFrom(levels, 0)

InitHigh ==
    \E n \in 1..MaxBoard : \E levels \in [1..n -> BoardLevels] : \E rand \in RandVals :
    \E prior \in PriorGames :
    /\ blocks = HighBoardFrom(levels, PiecesOf(prior))
    /\ bodiesMap = [u \in {blocks[k].uid : k \in 1..n} |->
                      NewBody(CHOOSE b \in Range(blocks) : b.uid = u)]
    /\ score = ScoreOf(levels) /\ highScore = Max(ScoreOf(prior), score)
    /\ gameOver = FALSE
    /\ totalBlocks = DropsOf(levels)
    /\ maxCombo = 1 /\ combo = 0
    /\ contributors = [c \in Names |-> IF c = DefaultName THEN totalBlocks ELSE 0]
    /\ processedMerges = {NewUid(m[1]) \o NewUid(m[2]) :
                             m \in HighMergesFrom(levels, PiecesOf(prior))}
    /\ gameOverTimer = NoTimer
    /\ sinceLastMerge = LongAgo
    /\ comboCount = 0
    /\ firstClientId = Player
    /\ lastBroadcastState = NoHash
    /\ playerQueues = MapSet(EmptyMap, Player, getRandomBlock(rand))
    /\ sockets = <<Player>>
    /\ timeouts = {}
    /\ uidSeq = PiecesOf(prior) + PiecesOf(levels)
    /\ lastOp = [op |-> "physics", id |-> 0]
    /\ emitted = {}
    /\ lastMerges = <<>>
    /\ armedFor = 0 /\ armedClean = FALSE
    /\ mergedPairs = {{NewUid(m[1]), NewUid(m[2])} :
                         m \in HighMerges(prior) \cup HighMergesFrom(levels, PiecesOf(prior))}

NextHigh ==
    \/ \E draw \in [Range(sockets) -> RandVals] : Restart(Player, draw)
    \/ PhysicsTickOver
    \/ \E phys \in [DOMAIN bodiesMap -> PhysStates] : PhysicsTick(phys)
    \/ \E h \in timeouts : TimerFire(h)
    \/ ComboTick
    \/ Advance

SpecHigh == InitHigh /\ [][NextHigh]_vars

\* ================================================================== claims
\* the step is the callback op (Advance leaves lastOp as it is)
Ran(op) == lastOp'.op = op /\ ~Advance

\* C1: gameOver becomes true only when the pending game-over timeout fires,
\* 3000 ms after it was armed, and every physics tick from the arming tick
\* on has seen a settled piece above the danger line; a physics tick that
\* sees none leaves no timeout scheduled, so no timeout fires after it.
C1_Debounce ==
    [][ /\ (~gameOver /\ gameOver') =>
             /\ Ran("timeout")
             /\ gameOverTimer \in timeouts
             /\ armedClean
             /\ armedFor >= GRACE_MS
        /\ (Ran("physics") /\ ~gameOver
              /\ \A k \in 1..Len(blocks') :
                    ~ ( /\ blocks'[k].y - blocks'[k].radius < GAME_OVER_LINE
                        /\ blocks'[k].vx * blocks'[k].vx + blocks'[k].vy * blocks'[k].vy < 900 )) =>
             /\ timeouts' = {}
             /\ gameOverTimer' = NoTimer ]_vars

\* C1 witness: the timeout has fired after a grace period in which every
\* tick saw a settled piece above the line
C1_Witness ==
    gameOver /\ lastOp.op = "timeout" /\ armedClean /\ armedFor = GRACE_MS

\* the sessions the step sent a saveHistory message to
SaveHistoryRecipients == {m.to : m \in {e \in emitted' : e.ev = "saveHistory"}}

\* C2 as stated: every firing of the game-over timeout sends saveHistory to
\* exactly one session, the history recorder, also when no session is
\* connected.
C2_AlwaysOneRecipient ==
    [][ Ran("timeout") =>
          /\ Cardinality(SaveHistoryRecipients) = 1
          /\ SaveHistoryRecipients = {firstClientId'} ]_vars

\* C2 amended: when the game-over timeout fires with at least one session
\* connected, saveHistory goes to exactly one session, which is connected and
\* is the history recorder; with no session connected it goes to nobody.
C2_OneRecipientIfConnected ==
    [][ Ran("timeout") =>
          IF Len(sockets) > 0
          THEN /\ Cardinality(SaveHistoryRecipients) = 1
               /\ SaveHistoryRecipients = {firstClientId'}
               /\ firstClientId' \in Range(sockets)
               /\ \A s \in Range(sockets) : Msg(s, "gameOver", 0) \in emitted'
          ELSE SaveHistoryRecipients = {} ]_vars

\* C2 witness: the timeout has fired with two sessions connected and one
\* saveHistory message went out
C2_Witness ==
    /\ lastOp.op = "timeout"
    /\ Len(sockets) = 2
    /\ Cardinality({e \in emitted : e.ev = "saveHistory"}) = 1

\* C3: the history recorder is a connected session whenever one is connected
\* and is cleared when none is; the session that connects when none is
\* connected becomes the recorder.
C3_Recorder ==
    /\ Len(sockets) > 0 => firstClientId \in Range(sockets)
    /\ Len(sockets) = 0 => firstClientId = NoClient
    /\ (lastOp.op = "connection" /\ Len(sockets) = 1) => firstClientId = lastOp.id

\* C3 witness: mid-game, after every session had disconnected, a session has
\* connected and holds the designation
C3_Witness ==
    /\ lastOp.op = "connection"
    /\ Len(sockets) = 1
    /\ Len(blocks) > 0
    /\ firstClientId = lastOp.id

\* C4 as stated: every contributor's count is the same after a restart as
\* before it.
C4_CountsSurviveRestart ==
    [][ Ran("restart") => \A n \in Names : contributors'[n] = contributors[n] ]_vars

\* C4 amended: after a restart no contributor has a count: every name's count
\* is 0, whatever it was before.
C4_CountsResetOnRestart ==
    [][ Ran("restart") => \A n \in Names : contributors'[n] = 0 ]_vars

\* C4 witness: a game with a contribution has been restarted
C4_Witness ==
    /\ lastOp.op = "restart"
    /\ uidSeq > 0
    /\ \A n \in Names : contributors[n] = 0

\* C5: right after a restart, whatever the state before it, the piece list
\* and the body map are empty, score, combo, maxCombo and totalBlocks are 0,
\* gameOver is false, the dedup set is empty, no timeout is scheduled and the
\* timer handle is cleared, highScore is what it was, and every connected
\* session has a personal next piece drawn by this restart and sent to it.
C5_RestartResets ==
    [][ Ran("restart") =>
          /\ blocks' = <<>>
          /\ DOMAIN bodiesMap' = {}
          /\ score' = 0 /\ combo' = 0 /\ maxCombo' = 0 /\ totalBlocks' = 0
          /\ comboCount' = 0
          /\ ~gameOver'
          /\ processedMerges' = {}
          /\ timeouts' = {}
          /\ gameOverTimer' = NoTimer
          /\ highScore' = highScore
          /\ \A s \in Range(sockets') :
                /\ s \in DOMAIN playerQueues'
                /\ playerQueues'[s].level \in 1..5
                /\ Msg(s, "personalNextFruit", playerQueues'[s].level) \in emitted' ]_vars

\* C5 witness: a game that had merges and a timeout has been restarted
C5_Witness ==
    /\ lastOp.op = "restart"
    /\ highScore > 0
    /\ armedFor > 0
    /\ blocks = <<>>
    /\ Len(sockets) > 0

\* C6: every key of processedMerges names two pieces that are both in
\* gameState.blocks.
C6_DedupNamesLivePieces ==
    \A key \in processedMerges :
        \E i, j \in 1..Len(blocks) :
            i # j /\ key = blocks[i].uid \o blocks[j].uid

\* the squared distance test of a merge, 400 * dist^2 < 441 * touchDist^2
WithinBand(a, b) ==
    Lt3(Add3(Sq3(20 * Abs(a.x - b.x)), Sq3(20 * Abs(a.y - b.y))),
        Sq3(21 * (a.radius + b.radius)))

\* the uids of a piece list
Uids(bl) == {bl[k].uid : k \in 1..Len(bl)}

\* C7: every piece of the list has a level in 1..MAX_LEVEL, before and after
\* every step; a pair resolved by a merge pass was two different pieces of
\* the list, of equal level below MAX_LEVEL, with centres closer than 1.05
\* times the sum of the radii, and the new piece is one level higher.
C7_MergePrecondition ==
    [][ /\ \A k \in 1..Len(blocks) : blocks[k].level \in 1..MAX_LEVEL
        /\ \A k \in 1..Len(blocks') : blocks'[k].level \in 1..MAX_LEVEL
        /\ Ran("physics") =>
             \A n \in 1..Len(lastMerges') :
                LET m == lastMerges'[n]
                IN /\ m.a.uid \in Uids(blocks) /\ m.b.uid \in Uids(blocks)
                   /\ m.a.uid # m.b.uid
                   /\ m.a.uid \in DOMAIN bodiesMap /\ m.b.uid \in DOMAIN bodiesMap
                   /\ m.a.level = m.b.level
                   /\ m.a.level < MAX_LEVEL
                   /\ WithinBand(m.a, m.b)
                   /\ m.new.level = m.a.level + 1
                   /\ m.new.radius = getRadius(FRUITS[m.a.level + 1]) ]_vars

\* C7 witness: a merge pass has produced a piece of level MAX_LEVEL
C7_Witness ==
    /\ lastOp.op = "physics"
    /\ Len(lastMerges) > 0
    /\ lastMerges[1].new.level = MAX_LEVEL
    /\ \E k \in 1..Len(blocks) : blocks[k].uid = lastMerges[1].new.uid

\* C8: a merge pass that resolves k pairs removes exactly the 2k source
\* pieces, all different, adds exactly k new pieces and so shortens the list
\* by k; and no pair it resolves was resolved at any earlier time.
C8_MergeCount ==
    [][ Ran("physics") =>
          LET ms == lastMerges'
              sources == UNION {{ms[n].a.uid, ms[n].b.uid} : n \in 1..Len(ms)}
              created == {ms[n].new.uid : n \in 1..Len(ms)}
          IN /\ Len(blocks') = Len(blocks) - Len(ms)
             /\ Cardinality(Uids(blocks')) = Len(blocks')
             /\ Uids(blocks) \ Uids(blocks') = sources
             /\ Cardinality(sources) = 2 * Len(ms)
             /\ Uids(blocks') \ Uids(blocks) = created
             /\ Cardinality(created) = Len(ms)
             /\ DOMAIN bodiesMap' = Uids(blocks')
             /\ \A n \in 1..Len(ms) : {ms[n].a.uid, ms[n].b.uid} \notin mergedPairs ]_vars

\* C8 witness: one merge pass over four pieces has resolved two pairs
C8_Witness ==
    /\ lastOp.op = "physics"
    /\ Len(lastMerges) = 2
    /\ Len(blocks) = 2

\* C9: a dropFruit request while gameOver sends one error message, to the
\* requesting session, and nothing else; the piece list, the body map,
\* totalBlocks, contributors, score and every personal next piece stay as
\* they were.
C9_DropRejected ==
    [][ (Ran("dropFruit") /\ gameOver) =>
          /\ emitted' = {Msg(lastOp'.id, "error", 0)}
          /\ \A m \in emitted' : m.ev \notin {"gameState", "personalNextFruit"}
          /\ blocks' = blocks
          /\ bodiesMap' = bodiesMap
          /\ totalBlocks' = totalBlocks
          /\ contributors' = contributors
          /\ score' = score
          /\ playerQueues' = playerQueues
          /\ gameOver' ]_vars

\* C9 witness: with two sessions connected and the game over, a drop has been
\* answered with an error
C9_Witness ==
    /\ gameOver
    /\ lastOp.op = "dropFruit"
    /\ Len(sockets) = 2
    /\ \E m \in emitted : m.ev = "error"

\* C10: while gameOver is true, every step other than a restart handler
\* leaves gameOver true and the piece list, the body map and the score as
\* they are.
C10_OverIsTerminal ==
    [][ (gameOver /\ ~Ran("restart")) =>
          /\ gameOver'
          /\ blocks' = blocks
          /\ bodiesMap' = bodiesMap
          /\ score' = score ]_vars

\* C10 witness: the physics interval has come round in a game that is over
C10_Witness ==
    /\ gameOver
    /\ lastOp.op = "physics"
    /\ Len(blocks) > 0
    /\ Len(sockets) > 0

\* C11: no step but a restart lowers score; highScore is at least score in
\* every state; no step lowers highScore; and highScore changes only in a
\* physics tick that resolved a merge, where it becomes the larger of the old
\* highScore and the new score.
C11_ScoreBookkeeping ==
    [][ /\ highScore >= score
        /\ highScore' >= score'
        /\ highScore' >= highScore
        /\ ~Ran("restart") => score' >= score
        /\ Ran("restart") => score' = 0
        /\ highScore' # highScore =>
             /\ Ran("physics")
             /\ Len(lastMerges') > 0
             /\ highScore' = Max(highScore, score') ]_vars

\* C11 witness: in a game after a restart, a merge has raised score while
\* highScore, set in an earlier game, stays above it
C11_Witness ==
    /\ lastOp.op = "physics"
    /\ Len(lastMerges) > 0
    /\ lastMerges[1].points > 0
    /\ 0 < score /\ score < highScore

\* the combo count and the time since the last merge that the n-th merge of
\* a pass finds
CountBefore(ms, n) == IF n = 1 THEN comboCount ELSE ms[n - 1].combo
SinceBefore(ms, n) == IF n = 1 THEN sinceLastMerge ELSE 0

RECURSIVE SumPoints(_)
SumPoints(ms) == IF ms = <<>> THEN 0 ELSE ms[1].points + SumPoints(Tail(ms))

\* C12: a merge into level n has basePoints 2^n * 10; if less than
\* COMBO_WINDOW ms have passed since the last merge and comboCount > 0, the
\* count goes up by one and the merge scores floor(basePoints * (1 + count *
\* 0.1)) with the new count, otherwise the count becomes 1 and the merge
\* scores basePoints; score grows by the points, maxCombo becomes the largest
\* count seen, and a first merge of two level-1 pieces scores 40.
C12_ComboScoring ==
    [][ Ran("physics") =>
          LET ms == lastMerges'
          IN /\ \A n \in 1..Len(ms) :
                  LET basePoints == (2 ^ ms[n].new.level) * 10
                      within == SinceBefore(ms, n) < COMBO_WINDOW /\ CountBefore(ms, n) > 0
                  IN IF within
                     THEN /\ ms[n].combo = CountBefore(ms, n) + 1
                          /\ ms[n].points * 10 <= basePoints * (10 + ms[n].combo)
                          /\ basePoints * (10 + ms[n].combo) < (ms[n].points + 1) * 10
                     ELSE /\ ms[n].combo = 1
                          /\ ms[n].points = basePoints
                          /\ (ms[n].new.level = 2 => ms[n].points = 40)
             /\ score' = score + SumPoints(ms)
             /\ Len(ms) > 0 =>
                  /\ comboCount' = ms[Len(ms)].combo
                  /\ combo' = comboCount'
                  /\ sinceLastMerge' = 0
                  /\ maxCombo' >= maxCombo
                  /\ \A n \in 1..Len(ms) : maxCombo' >= ms[n].combo
                  /\ maxCombo' = maxCombo \/ \E n \in 1..Len(ms) : maxCombo' = ms[n].combo
             /\ Len(ms) = 0 => UNCHANGED <<comboCount, combo, maxCombo, sinceLastMerge>> ]_vars

\* C12 witness: a second merge, one TimeStep after the first, has combo 2 and
\* scored 1.2 times its basePoints
C12_Witness ==
    /\ lastOp.op = "physics"
    /\ Len(lastMerges) = 1
    /\ lastMerges[1].combo = 2
    /\ lastMerges[1].new.level = 2
    /\ lastMerges[1].points = 48
    /\ score = 88
    /\ maxCombo = 2

\* C13: a combo tick more than COMBO_WINDOW ms after the last merge leaves
\* comboCount and gameState.combo at 0, whether or not the game is over; a
\* combo tick within the window leaves them as they are; a combo tick writes
\* nothing else; and, the combo interval and the clock running, a positive
\* comboCount is followed by a comboCount of 0.
C13_ComboDecay ==
    /\ [][ Ran("combo") =>
             /\ IF sinceLastMerge > COMBO_WINDOW
                THEN comboCount' = 0 /\ combo' = 0
                ELSE comboCount' = comboCount /\ combo' = combo
             /\ UNCHANGED <<blocks, bodiesMap, score, highScore, maxCombo,
                            gameOver, sinceLastMerge, timeouts>> ]_vars
    /\ (comboCount > 0) ~> (comboCount = 0)

\* C13 witness: after a merge, in a game that is over, a combo tick has found
\* the window passed and the count is 0
C13_Witness ==
    /\ lastOp.op = "combo"
    /\ maxCombo > 0
    /\ comboCount = 0 /\ combo = 0
    /\ sinceLastMerge > COMBO_WINDOW
    /\ gameOver

\* the sessions the step sent a gameOver message to
GameOverRecipients == {m.to : m \in {e \in emitted' : e.ev = "gameOver"}}

\* C14: gameOver becomes true only when the timeout fires, and that step
\* sends the gameOver message to every connected session; a connection
\* sends it to the connecting session, and to nobody else, if gameOver is
\* true and to nobody if it is false; no other callback sends it.
C14_GameOverNotification ==
    [][ /\ (~gameOver /\ gameOver') => Ran("timeout")
        /\ Ran("timeout") =>
             /\ ~gameOver /\ gameOver'
             /\ GameOverRecipients = Range(sockets)
        /\ Ran("connection") =>
             GameOverRecipients = IF gameOver THEN {lastOp'.id} ELSE {}
        /\ (~Advance /\ lastOp'.op \notin {"timeout", "connection"}) =>
             GameOverRecipients = {} ]_vars

\* C14 witness: a second session has connected to a game that is over and
\* has been sent the gameOver message
C14_Witness ==
    /\ gameOver
    /\ lastOp.op = "connection"
    /\ Len(sockets) = 2
    /\ {m.to : m \in {e \in emitted : e.ev = "gameOver"}} = {lastOp.id}

\* C16: a broadcast tick sends nothing and keeps the recorded hash exactly
\* when no body is faster than 0.05, the hash of (number of pieces, score,
\* gameOver) is the recorded one and there is a piece; otherwise, so whenever
\* there is no piece, it sends gameState to every session and records the
\* hash.
C16_BroadcastSkip ==
    [][ Ran("broadcast") =>
          LET moving == \E k \in 1..Len(blocks) :
                           /\ blocks[k].uid \in DOMAIN bodiesMap
                           /\ bodiesMap[blocks[k].uid].vx * bodiesMap[blocks[k].uid].vx
                                + bodiesMap[blocks[k].uid].vy * bodiesMap[blocks[k].uid].vy > 25
              hash == <<Len(blocks), score, gameOver>>
          IN IF ~moving /\ lastBroadcastState = hash /\ Len(blocks) > 0
             THEN /\ emitted' = {}
                  /\ lastBroadcastState' = lastBroadcastState
             ELSE /\ emitted' = {Msg(t, "gameState", 0) : t \in Range(sockets)}
                  /\ lastBroadcastState' = hash ]_vars

\* C16 witness: with a session connected and a piece at rest, a broadcast
\* tick has sent nothing
C16_Witness ==
    /\ lastOp.op = "broadcast"
    /\ emitted = {}
    /\ Len(sockets) > 0
    /\ Len(blocks) > 0
    /\ lastBroadcastState = <<Len(blocks), score, gameOver>>

\* C17: a disconnect leaves the piece list, the body map, score, totalBlocks,
\* gameOver, the game-over timer and the contributors as they are; it removes
\* the personal next piece of the departing session and no other; and the
\* recorder changes only if the departing session was the recorder, to a
\* session still connected or to none.
C17_DisconnectFrame ==
    [][ Ran("disconnect") =>
          /\ UNCHANGED <<blocks, bodiesMap, score, highScore, totalBlocks,
                         gameOver, gameOverTimer, timeouts, contributors>>
          /\ DOMAIN playerQueues' = DOMAIN playerQueues \ {lastOp'.id}
          /\ \A t \in DOMAIN playerQueues' : playerQueues'[t] = playerQueues[t]
          /\ firstClientId # lastOp'.id => firstClientId' = firstClientId
          /\ firstClientId = lastOp'.id =>
               \/ firstClientId' \in Range(sockets')
               \/ sockets' = <<>> /\ firstClientId' = NoClient ]_vars

\* C17 witness: the session that dropped the piece on the board has
\* disconnected while the game-over timer is pending
C17_Witness ==
    /\ lastOp.op = "disconnect"
    /\ \E k \in 1..Len(blocks) : blocks[k].droppedBy = lastOp.id
    /\ gameOverTimer \in timeouts
    /\ contributors[DefaultName] > 0
    /\ lastOp.id \notin DOMAIN playerQueues

\* C15: an accepted drop of session s appends exactly one piece, of the rank
\* of s's personal next piece before the drop; totalBlocks grows by one; the
\* count of the supplied name, or of the default name when none is supplied,
\* grows by one; s gets a newly drawn next piece and is the only recipient of
\* personalNextFruit, which carries that piece; the next pieces of the other
\* sessions stay; and gameState is sent to every session.
C15_AcceptedDrop ==
    [][ (Ran("dropFruit") /\ ~gameOver) =>
          LET s == lastOp'.id
              name == IF lastOp'.playerName = "" THEN DefaultName
                      ELSE lastOp'.playerName
          IN /\ Len(blocks') = Len(blocks) + 1
             /\ SubSeq(blocks', 1, Len(blocks)) = blocks
             /\ blocks'[Len(blocks')].level = playerQueues[s].level
             /\ totalBlocks' = totalBlocks + 1
             /\ contributors'[name] = contributors[name] + 1
             /\ playerQueues'[s] \in {getRandomBlock(r) : r \in DropRands}
             /\ {m \in emitted' : m.ev = "personalNextFruit"}
                  = {Msg(s, "personalNextFruit", playerQueues'[s].level)}
             /\ \A t \in DOMAIN playerQueues \ {s} : playerQueues'[t] = playerQueues[t]
             /\ {m.to : m \in {e \in emitted' : e.ev = "gameState"}} = Range(sockets) ]_vars

\* C18: in every state the keys of the body map are the uids of the piece
\* list and no two pieces of the list have the same uid, so that a body
\* leaves the map exactly when its piece leaves the list.
C18_BodiesMatchPieces ==
    /\ DOMAIN bodiesMap = Uids(blocks)
    /\ Cardinality(Uids(blocks)) = Len(blocks)

\* C18 witness: a merge pass has removed two pieces with their bodies and
\* added the merged piece with its body, next to a piece that stays
C18_Witness ==
    /\ lastOp.op = "physics"
    /\ Len(lastMerges) = 1
    /\ Len(blocks) = 2
    /\ lastMerges[1].new.uid \in DOMAIN bodiesMap
    /\ lastMerges[1].a.uid \notin DOMAIN bodiesMap
    /\ lastMerges[1].b.uid \notin DOMAIN bodiesMap

\* the place of the piece uid in the list bl
PlaceOf(bl, uid) == CHOOSE k \in 1..Len(bl) : bl[k].uid = uid

\* a piece of equal level below MAX_LEVEL within the merge distance
Candidates(a, b) ==
    /\ a.level = b.level
    /\ a.level < MAX_LEVEL
    /\ 20 * Abs(a.x - b.x) < 21 * (a.radius + b.radius)
    /\ 20 * Abs(a.y - b.y) < 21 * (a.radius + b.radius)
    /\ (a.x = b.x /\ a.y = b.y) \/ WithinBand(a, b)

\* C19: in one merge pass (a physics tick of a running game) the pieces that
\* stay keep their order at the head of the list and the merged pieces follow
\* them; no piece is a source of two merges, and no piece created by the pass
\* is a source in it; the pairs are taken in scan order: a piece that stays
\* and could merge with the first piece of a resolved pair stands after the
\* second one, one that could merge with the second piece stands after the
\* first, a piece that stands between the two of a pair and could merge with
\* its first piece was taken by a pair that starts earlier, and no two pieces
\* that stay could merge.
C19_OneMergePerPiece ==
    [][ (Ran("physics") /\ ~gameOver) =>
          LET ms == lastMerges'
              N == 1..Len(ms)
              kept == Len(blocks') - Len(ms)
              place == [u \in Uids(blocks) |-> PlaceOf(blocks, u)]
          IN /\ \A c \in 1..kept : \A d \in (c + 1)..kept :
                  ~Candidates(blocks'[c], blocks'[d])
             /\ \A n \in N :
                  /\ blocks'[kept + n] = ms[n].new
                  /\ ms[n].new.uid \notin Uids(blocks)
                  /\ \A c \in 1..kept : blocks'[c].uid \in Uids(blocks)
                  /\ \A c \in 1..(kept - 1) :
                       place[blocks'[c].uid] < place[blocks'[c + 1].uid]
                  /\ ms[n].a.uid # ms[n].b.uid
                  /\ {ms[n].a.uid, ms[n].b.uid} \subseteq Uids(blocks)
                  /\ {ms[n].a.uid, ms[n].b.uid} \cap Uids(blocks') = {}
                  /\ place[ms[n].a.uid] < place[ms[n].b.uid]
                  /\ \A c \in 1..kept :
                       /\ Candidates(ms[n].a, blocks'[c]) =>
                            place[blocks'[c].uid] > place[ms[n].b.uid]
                       /\ Candidates(ms[n].b, blocks'[c]) =>
                            place[blocks'[c].uid] > place[ms[n].a.uid]
                  /\ \A k \in N \ {n} :
                       /\ {ms[n].a.uid, ms[n].b.uid} \cap {ms[k].a.uid, ms[k].b.uid} = {}
                       /\ n < k => place[ms[n].a.uid] < place[ms[k].a.uid]
                       /\ (/\ place[ms[k].b.uid] < place[ms[n].b.uid]
                           /\ place[ms[k].b.uid] > place[ms[n].a.uid]
                           /\ Candidates(ms[n].a, ms[k].b))
                          => place[ms[k].a.uid] < place[ms[n].a.uid]
                       /\ (/\ place[ms[k].a.uid] > place[ms[n].a.uid]
                           /\ Candidates(ms[n].a, ms[k].a))
                          => place[ms[k].a.uid] > place[ms[n].b.uid] ]_vars

\* C19 witness: of three pieces of one level, each within the merge distance
\* of the other two, the first two have merged and the third stays
C19_Witness ==
    /\ lastOp.op = "physics"
    /\ Len(lastMerges) = 1
    /\ \E c \in 1..Len(blocks) :
          /\ blocks[c].uid # lastMerges[1].new.uid
          /\ blocks[c].uid[2] > lastMerges[1].b.uid[2]
          /\ lastMerges[1].b.uid[2] > lastMerges[1].a.uid[2]
          /\ Candidates(blocks[c], lastMerges[1].a)
          /\ Candidates(blocks[c], lastMerges[1].b)
          /\ Candidates(lastMerges[1].a, lastMerges[1].b)

\* a piece above the danger line that is slower than 0.3
SettledAbove(b) ==
    /\ b.y - b.radius < GAME_OVER_LINE
    /\ b.vx * b.vx + b.vy * b.vy < 900

\* C20: after a physics tick of a running game the game-over timer is
\* pending exactly if the list the merge pass left has a settled piece above
\* the line; so when the timer is pending, a merge consumes a settled piece
\* above the line and neither a piece that stays nor a merged piece is one,
\* the tick cancels the timer, leaves no timeout scheduled and gameOver false.
C20_MonitorAfterMerges ==
    [][ (Ran("physics") /\ ~gameOver) =>
          LET ms == lastMerges'
              N == 1..Len(ms)
          IN /\ (timeouts' # {}) <=> (\E k \in 1..Len(blocks') : SettledAbove(blocks'[k]))
             /\ (/\ gameOverTimer # NoTimer
                 /\ \E n \in N : SettledAbove(ms[n].a) \/ SettledAbove(ms[n].b)
                 /\ \A k \in 1..Len(blocks') :
                       blocks'[k].uid \in Uids(blocks) => ~SettledAbove(blocks'[k])
                 /\ \A n \in N : ~SettledAbove(ms[n].new))
                => /\ gameOverTimer' = NoTimer
                   /\ timeouts' = {}
                   /\ ~gameOver' ]_vars

\* C20 witness: a tick has merged a settled piece above the line while the
\* timer was pending, and the timer is cancelled
C20_Witness ==
    /\ lastOp.op = "physics"
    /\ ~gameOver
    /\ Len(lastMerges) > 0
    /\ SettledAbove(lastMerges[1].a)
    /\ armedFor > 0
    /\ timeouts = {}
    /\ gameOverTimer = NoTimer

RECURSIVE SumCounts(_, _)
\* the sum of the counts c of the names, as JS adds them: NaN if one is NaN
SumCounts(c, names) ==
    IF names = {} THEN 0
    ELSE LET n == CHOOSE x \in names : TRUE
             rest == SumCounts(c, names \ {n})
         IN IF c[n] = NaN \/ rest = NaN THEN NaN ELSE c[n] + rest

\* C22: in every state the counts of gameState.contributors add up to
\* gameState.totalBlocks.
C22_CountsSumToTotalBlocks ==
    SumCounts(contributors, Names) = totalBlocks

\* the list has a settled piece above the danger line
SettledPresent == \E k \in 1..Len(blocks) : SettledAbove(blocks[k])

\* C21: a tick of a running game that sees a settled piece above the line
\* arms the timer for GRACE_MS if none is pending and otherwise leaves the
\* pending timer as it is; at most one timeout is scheduled; and, the ticks,
\* the clock and the timeouts fairly scheduled, if from some state on the
\* list always has a settled piece above the line (so every tick sees one
\* and no restart empties the list), gameOver becomes true.
C21_GameOverLiveness ==
    /\ [][ /\ Cardinality(timeouts') <= 1
           /\ (Ran("physics") /\ ~gameOver /\ SettledPresent') =>
                IF gameOverTimer = NoTimer
                THEN gameOverTimer' = GRACE_MS /\ timeouts' = {GRACE_MS}
                ELSE UNCHANGED <<gameOverTimer, timeouts>> ]_vars
    /\ (<>[]SettledPresent) => <>gameOver

\* C21 witness: the timer armed by a tick has run its 3000 ms with every
\* tick seeing a settled piece above the line, and has set gameOver
C21_Witness ==
    /\ gameOver
    /\ lastOp.op = "timeout"
    /\ SettledPresent
    /\ armedClean
    /\ armedFor = GRACE_MS
    /\ timeouts = {}

====
